---- MODULE Spec2Model ----
(***************************************************************************)
(* Location-aware trending engine of news-backend                          *)
(* (services/llmService.go, with its callers in the controllers package).  *)
(*                                                                         *)
(* Units.  Latitude and longitude are integers in thousandths of a degree, *)
(* distances and radii integers in millimetres, wall-clock time integers   *)
(* in seconds.  Scores are fixed-point integers: a contribution is         *)
(* weight * Decay * Proximity, the factors scaled by DecayScale, ProxScale. *)
(* All modelled points lie on one meridian (Lon0), where the haversine     *)
(* formula reduces to R * |dLat|; the simulator's longitude jitter is      *)
(* drawn as 0, a value rnd.Float64()-0.5 can take.                         *)
(***************************************************************************)
EXTENDS Integers, Sequences, FiniteSets, TLC

\* ---------------------------------------------------------------- bounds
\* number of clock ticks a behaviour may contain
MaxTicks == 2
\* numEvents is drawn from 1..MaxEvents (from 1000..2999 in the source)
MaxEvents == 1
\* longest event store of the scoring runs
MaxScored == 2

\* seconds the clock advances per tick
TickStep == 30

\* ------------------------------------------------------ program constants
\* freshness window of a cache entry, seconds
TTL == 60
\* recency half-life, seconds (12 hours)
HalfLife == 43200
\* millimetres of great circle per thousandth of a degree (6371 km * pi / 180 / 1000)
MmPerMilliDeg == 111195
\* fixed-point scales of the decay and proximity factors
DecayScale == 10000
ProxScale == 1000

None == "none"
Requests == {"r1", "r2"}
\* simulation goroutines: g1 is started by ConnectDB, g2 by SaveArticlesToDB
Sims == {"g1", "g2"}

Lon0 == 20000

Article(id, lat) == [ID |-> id, Latitude |-> lat, Longitude |-> Lon0]
\* data/news_data.json
Bundled == <<Article("a1", 8), Article("a2", 12)>>
\* content a database may already hold when the process starts
Preloaded == <<Article("a1", 8), Article("a3", 8)>>

\* an event as simulateEvents appends it
Event(id, ty, lat, ts) == [ArticleID |-> id, Type |-> ty, Lat |-> lat, Lon |-> Lon0, Ts |-> ts]

\* populations a finished simulation run can have left, with the content read
Stores ==
  { [db |-> <<>>, events |-> <<>>],
    [db |-> Bundled,
     events |-> <<Event("a1", "view", 8, 0), Event("a2", "share", 12, -43200),
                  Event("a2", "click", 12, 0)>>],
    [db |-> Preloaded,
     events |-> <<Event("a1", "click", 8, 0), Event("a3", "click", 8, 0)>>] }

\* inputs of get_trending: the query points,
\*   (0.004, 1.04 km) and (0.003, 1.0 km), which share a grid cell and a rounded
\*   radius, and (-0.001, 1.04 km), which rounds to latitude -0
Queries ==
  { [lat |-> 4, radius |-> 1040000],
    [lat |-> 3, radius |-> 1000000],
    [lat |-> -1, radius |-> 1040000] }
\* limits as parseLimit yields them (positive)
QueryLimits == {1, 2}
\* the query of the start-up scenario
SysQueries == {[lat |-> 4, radius |-> 1040000]}
SysLimits == {1}
\* inputs of the scoring runs, all of the 0.01-degree cell of latitude 0.01:
\*   (0.010, 222.390 m): both bundled articles lie exactly at the radius;
\*   (0.010, 222.389 m): both lie one millimetre beyond it;
\*   (0.009, 111.195 m): a1 lies exactly at the radius, a2 beyond it;
\*   (0.010, 300 m): both lie within the radius, at the same distance
ScoreQueries ==
  { [lat |-> 10, radius |-> 2 * MmPerMilliDeg],
    [lat |-> 10, radius |-> 2 * MmPerMilliDeg - 1],
    [lat |-> 9, radius |-> MmPerMilliDeg],
    [lat |-> 10, radius |-> 300000] }
\* the controller's default limit
ScoreLimits == {5}
\* events a run over the bundled articles can have generated: each type, now
\* or one half-life ago, at the article's place
ScoreEvents ==
  { Event(Bundled[i].ID, ty, Bundled[i].Latitude, ts) :
      i \in 1..Len(Bundled), ty \in {"view", "click", "share"}, ts \in {0, -HalfLife} }
\* draws of the simulator for one event: the index into types, the age in
\* minutes and the latitude jitter in thousandths of a degree
Draws ==
  { [ty |-> 1, age |-> 0, jitter |-> 0],
    [ty |-> 2, age |-> 720, jitter |-> 0],
    [ty |-> 3, age |-> 720, jitter |-> 0] }

\* ---------------------------------------------------------------- helpers
Abs(x) == IF x < 0 THEN -x ELSE x

Pow2(k) == IF k <= 0 THEN 1 ELSE 2 ^ k

Prefixes(s) == {SubSeq(s, 1, n) : n \in 0..Len(s)}

\* math.Round(x / m) for an integer x: half away from zero, the sign of x is
\* kept even when the magnitude rounds to zero (Round(-0.4) = -0)
Round(x, m) == [neg |-> x < 0, mag |-> (Abs(x) + (m \div 2)) \div m]

\* fmt.Sprintf("%.2f") of a rounded value: the digits and the sign,
\* negative zero prints as "-0.00"
Sprintf(v) == <<IF v.neg THEN "-" ELSE "", v.mag>>

cacheKey(lat, lon, radius) ==
  <<Sprintf(Round(lat, 10)), Sprintf(Round(lon, 10)), Sprintf(Round(radius, 100000))>>

\* great-circle distance in millimetres between two points of one meridian
haversine(lat1, lon1, lat2, lon2) == Abs(lat2 - lat1) * MmPerMilliDeg

\* variant: every type weighs the same
weightsFlat(type) == IF type \in {"view", "click", "share"} THEN 1 ELSE 0

\* weights := map[string]float64{"view": 1.0, "click": 2.0, "share": 3.0}; a
\* type that is no key reads as 0
weights(type) ==
  CASE type = "view" -> 1
    [] type = "click" -> 2
    [] type = "share" -> 3
    [] OTHER -> 0

\* DecayScale * exp(-ln2 * age / 12h): exact at whole half-lives, linear between
Decay(ageSec) ==
  LET k == ageSec \div HalfLife
      r == ageSec % HalfLife
  IN ((2 * HalfLife - r) * DecayScale) \div (Pow2(k + 1) * HalfLife)

\* ProxScale * 1 / (1 + d), d in km
Proximity(d) == (ProxScale * 1000000) \div (1000000 + d)

\* variant: an event exactly at the radius is skipped
InRadiusExclusive(d, radius) == d < radius

\* if d > radius { continue }
InRadius(d, radius) == ~(d > radius)

Contribution(e, lat, lon, t) ==
  weights(e.Type) * Decay(t - e.Ts) * Proximity(haversine(lat, lon, e.Lat, e.Lon))

\* the scoring loop: scoreMap after the events of evs have been scanned
RECURSIVE ScoreOf(_, _, _, _, _, _)
ScoreOf(id, evs, lat, lon, radius, t) ==
  IF evs = <<>> THEN 0
  ELSE LET e == Head(evs)
           rest == ScoreOf(id, Tail(evs), lat, lon, radius, t)
       IN IF e.ArticleID = id /\ InRadius(haversine(lat, lon, e.Lat, e.Lon), radius)
          THEN Contribution(e, lat, lon, t) + rest
          ELSE rest

ScoredIDs(evs, lat, lon, radius) ==
  {evs[i].ArticleID : i \in {j \in 1..Len(evs) :
      InRadius(haversine(lat, lon, evs[j].Lat, evs[j].Lon), radius)}}

scoreMap(evs, lat, lon, radius, t) ==
  [id \in ScoredIDs(evs, lat, lon, radius) |-> ScoreOf(id, evs, lat, lon, radius, t)]

\* the articles of all whose ID is in ids, in the order of all
RECURSIVE FilterByIDs(_, _)
FilterByIDs(all, ids) ==
  IF all = <<>> THEN <<>>
  ELSE IF Head(all).ID \in ids
       THEN <<Head(all)>> \o FilterByIDs(Tail(all), ids)
       ELSE FilterByIDs(Tail(all), ids)

\* variant: no fallback to the bundled file
loadWithoutFallback(ids, primary, file) ==
  IF primary.err THEN <<>> ELSE FilterByIDs(primary.val, ids)

\* loadArticlesByIDs: primary is the result of LoadAllArticlesFromDB and file
\* that of LoadNewsDataFromFile, each [err, val]
loadArticlesByIDs(ids, primary, file) ==
  IF primary.err
  THEN FilterByIDs(IF file.err THEN <<>> ELSE file.val, ids)
  ELSE FilterByIDs(primary.val, ids)

BuildItems(articles, sm) ==
  [i \in 1..Len(articles) |-> [Article |-> articles[i], Score |-> sm[articles[i].ID]]]

IsSortedDesc(items) ==
  \A i \in 1..Len(items) - 1 : ~(items[i + 1].Score > items[i].Score)

Perms(n) == {p \in [1..n -> 1..n] : \A i, j \in 1..n : i # j => p[i] # p[j]}

\* sort.Slice with less = Score greater: some permutation in which no element
\* is followed by one of greater score (the sort is not stable)
SortOutcomes(items) ==
  {s \in {[i \in 1..Len(items) |-> items[p[i]]] : p \in Perms(Len(items))} : IsSortedDesc(s)}

\* variant: the list is returned uncut
TopLimitUncut(items, limit) == items

\* return items[:limit] when len(items) > limit, items otherwise
TopLimit(items, limit) == IF Len(items) > limit THEN SubSeq(items, 1, limit) ELSE items

\* variant: an entry of exactly the window's age still counts as fresh
FreshInclusive(e, t) == t - e.At <= TTL

\* time.Since(e.At) < 60*time.Second
Fresh(e, t) == t - e.At < TTL

\* sync.RWMutex
Unlocked == [writer |-> None, readers |-> {}]
\* variants: the lock admits a reader, or a writer, whoever holds it
RLockUnguarded(mu) == TRUE
LockUnguarded(mu) == TRUE

\* variant: the lock stays held after the section
UnlockForgotten(mu) == mu

\* Unlock
Unlock(mu) == [mu EXCEPT !.writer = None]

\* RUnlock by reader r
RUnlock(mu, r) == [mu EXCEPT !.readers = @ \ {r}]

\* RLock is granted while no writer holds the lock
CanRLock(mu) == mu.writer = None

\* Lock is granted while nobody holds the lock
CanLock(mu) == mu.writer = None /\ mu.readers = {}

\* ------------------------------------------------------------------ state
VARIABLES
  now,        \* wall clock, seconds
  ticks,      \* clock ticks taken so far
  db,         \* the articles collection of the document store
  mainPc,     \* position of the start-up sequence ConnectDB; SaveArticlesToDB
  sim,        \* the simulation goroutines
  events,     \* var events []Event
  eventsMu,   \* var eventsMu sync.RWMutex
  cache,      \* var cache map[string]cachedTrending
  cacheMu,    \* var cacheMu sync.RWMutex
  req,        \* the calls of GetTrendingForLocation
  stable,     \* history: events as the last finished run left it
  lastRun,    \* history: the run that replaced events last, and the number of its articles
  entryId,    \* history: per cache key, the sequence number of its last write
  lastWriter  \* history: per cache key, the call that wrote it last

vars == <<now, ticks, db, mainPc, sim, events, eventsMu, cache, cacheMu, req,
          stable, lastRun, entryId, lastWriter>>

types == <<"view", "click", "share">>

NoEntry == [At |-> -1, Result |-> <<>>]

NoRun == [by |-> None, articles |-> 0]

SimInit == [pc |-> "off", articles |-> <<>>, read |-> None, n |-> 0, ts |-> 0]

ReqInit ==
  [pc |-> "idle", lat |-> 0, lon |-> 0, radius |-> 0, limit |-> 0, key |-> <<>>,
   found |-> FALSE, e |-> NoEntry, evs |-> <<>>, ids |-> {}, items |-> <<>>,
   result |-> <<>>, err |-> None, path |-> None,
   t0 |-> 0, afterZeroRun |-> FALSE, snapStable |-> <<>>, primaryErr |-> None,
   fileErr |-> None, wroteAt |-> -1, served |-> 0, hitOver |-> <<>>]

Init ==
  /\ now = 0
  /\ ticks = 0
  /\ db \in {<<>>, Preloaded}
  /\ mainPc = "connect"
  /\ sim = [s \in Sims |-> SimInit]
  /\ events = <<>>
  /\ eventsMu = Unlocked
  /\ cache = [k \in {} |-> NoEntry]
  /\ cacheMu = Unlocked
  /\ req = [r \in Requests |-> ReqInit]
  /\ stable = <<>>
  /\ lastRun = NoRun
  /\ entryId = [k \in {} |-> 0]
  /\ lastWriter = [k \in {} |-> None]

\* ------------------------------------------------------------------ clock
Tick ==
  /\ ticks < MaxTicks
  /\ ticks' = ticks + 1
  /\ now' = now + TickStep
  /\ UNCHANGED <<db, mainPc, sim, events, eventsMu, cache, cacheMu, req,
                 stable, lastRun, entryId, lastWriter>>

\* --------------------------------------------------------------- start-up
\* InitTrendingSimulator: go func() { ... }()
InitTrendingSimulator(s) == [sim EXCEPT ![s].pc = "read"]

\* ConnectDB: connect and ping succeed (log.Fatal ends the process otherwise),
\* then the first simulation goroutine is started
ConnectDB ==
  /\ mainPc = "connect"
  /\ mainPc' = "count"
  /\ sim' = InitTrendingSimulator("g1")
  /\ UNCHANGED <<now, ticks, db, events, eventsMu, cache, cacheMu, req,
                 stable, lastRun, entryId, lastWriter>>

\* SaveArticlesToDB up to the count check: a count error or a non-empty
\* collection returns
SaveCount ==
  /\ mainPc = "count"
  /\ \E countErr \in BOOLEAN :
       mainPc' = IF countErr \/ Len(db) > 0 THEN "done" ELSE "seed"
  /\ UNCHANGED <<now, ticks, db, sim, events, eventsMu, cache, cacheMu, req,
                 stable, lastRun, entryId, lastWriter>>

\* SaveArticlesToDB from the file load on: a load error returns; an insert
\* error returns with some prefix of the documents stored; a successful
\* insert restarts the simulator
SaveSeed ==
  /\ mainPc = "seed"
  /\ mainPc' = "done"
  /\ \/ UNCHANGED <<db, sim>>
     \/ \E p \in Prefixes(Bundled) : db' = db \o p /\ UNCHANGED sim
     \/ db' = db \o Bundled /\ sim' = InitTrendingSimulator("g2")
  /\ UNCHANGED <<now, ticks, events, eventsMu, cache, cacheMu, req,
                 stable, lastRun, entryId, lastWriter>>

\* -------------------------------------------------------------- simulator
\* The goroutine of InitTrendingSimulator up to the call of simulateEvents:
\* Find fails and the goroutine returns, or the cursor is drained until it is
\* exhausted or the 10 s context expires
ReadArticles(s) ==
  /\ sim[s].pc = "read"
  /\ \/ sim' = [sim EXCEPT ![s].pc = "done", ![s].read = "err"]
     \/ \E a \in Prefixes(db) :
          sim' = [sim EXCEPT ![s].pc = "lock", ![s].articles = a,
                             ![s].read = IF a = db THEN "ok" ELSE "timeout"]
  /\ UNCHANGED <<now, ticks, db, mainPc, events, eventsMu, cache, cacheMu, req,
                 stable, lastRun, entryId, lastWriter>>

\* variant: the run returns on no articles before it resets events
EventsKeptWhenNoArticles(old, articles) == IF Len(articles) = 0 THEN old ELSE <<>>

\* events = []Event{} comes before the check of len(articles)
EventsAfterReset(old, articles) == <<>>

\* variant: a run drops every cache entry
CacheDroppedByRun(c) == [k \in {} |-> NoEntry]

\* the cache after a run has reset the event store: simulateEvents has no
\* statement on cache or cacheMu
CacheAfterRun(c) == c

\* eventsMu.Lock()
SimLock(s) ==
  /\ sim[s].pc = "lock"
  /\ CanLock(eventsMu)
  /\ eventsMu' = [eventsMu EXCEPT !.writer = s]
  /\ sim' = [sim EXCEPT ![s].pc = "reset"]
  /\ UNCHANGED <<now, ticks, db, mainPc, events, cache, cacheMu, req,
                 stable, lastRun, entryId, lastWriter>>

\* events = []Event{}; with no articles the run returns (deferred Unlock),
\* otherwise now and numEvents are drawn
SimReset(s) ==
  /\ sim[s].pc = "reset"
  /\ events' = EventsAfterReset(events, sim[s].articles)
  /\ lastRun' = [by |-> s, articles |-> Len(sim[s].articles)]
  /\ IF Len(sim[s].articles) = 0
     THEN /\ sim' = [sim EXCEPT ![s].pc = "done"]
          /\ eventsMu' = Unlock(eventsMu)
          /\ stable' = events'
     ELSE /\ \E numEvents \in 1..MaxEvents :
               sim' = [sim EXCEPT ![s].pc = "gen", ![s].n = numEvents,
                                  ![s].ts = now]
          /\ UNCHANGED <<eventsMu, stable>>
  /\ cache' = CacheAfterRun(cache)
  /\ UNCHANGED <<now, ticks, db, mainPc, cacheMu, req, entryId, lastWriter>>

\* one iteration of the generation loop
SimAppend(s) ==
  /\ sim[s].pc = "gen"
  /\ Len(events) < sim[s].n
  /\ \E i \in 1..Len(sim[s].articles), d \in Draws :
       LET a == sim[s].articles[i]
       IN events' = Append(events,
            [ArticleID |-> a.ID, Type |-> types[d.ty], Lat |-> a.Latitude + d.jitter,
             Lon |-> a.Longitude, Ts |-> sim[s].ts - d.age * 60])
  /\ UNCHANGED <<now, ticks, db, mainPc, sim, eventsMu, cache, cacheMu, req,
                 stable, lastRun, entryId, lastWriter>>

\* the loop is over: return, the deferred eventsMu.Unlock() runs
SimReturn(s) ==
  /\ sim[s].pc = "gen"
  /\ ~(Len(events) < sim[s].n)
  /\ sim' = [sim EXCEPT ![s].pc = "done"]
  /\ eventsMu' = Unlock(eventsMu)
  /\ stable' = events
  /\ UNCHANGED <<now, ticks, db, mainPc, events, cache, cacheMu, req,
                 lastRun, entryId, lastWriter>>

\* ------------------------------------------------- GetTrendingForLocation
\* start-up is over, no run is in flight, and the last run was over no articles
Quiescent == mainPc = "done" /\ \A s \in Sims : sim[s].pc \in {"off", "done"}
AfterZeroRun == Quiescent /\ lastRun.by # None /\ lastRun.articles = 0

\* the calls are named in the order of their arrival
MayBegin(r) == r = "r1" \/ req["r1"].pc # "idle"

\* a call arrives with arguments drawn from the given sets;
\* key := cacheKey(lat, lon, radius)
Begin(r, queries, limits) ==
  /\ req[r].pc = "idle"
  /\ MayBegin(r)
  /\ \E q \in queries, limit \in limits :
       req' = [req EXCEPT ![r].pc = "cacheRLock", ![r].lat = q.lat, ![r].lon = Lon0,
                          ![r].radius = q.radius, ![r].limit = limit,
                          ![r].key = cacheKey(q.lat, Lon0, q.radius),
                          ![r].t0 = now, ![r].afterZeroRun = AfterZeroRun]
  /\ UNCHANGED <<now, ticks, db, mainPc, sim, events, eventsMu, cache, cacheMu,
                 stable, lastRun, entryId, lastWriter>>

\* a call of the start-up scenario: its calls arrive one after the other
BeginOne(r) ==
  /\ \A o \in Requests \ {r} : req[o].pc \in {"idle", "done"}
  /\ Begin(r, SysQueries, SysLimits)

\* a call with any of the modelled arguments
BeginAny(r) == Begin(r, Queries, QueryLimits)

\* cacheMu.RLock()
CacheRLock(r) ==
  /\ req[r].pc = "cacheRLock"
  /\ CanRLock(cacheMu)
  /\ cacheMu' = [cacheMu EXCEPT !.readers = @ \cup {r}]
  /\ req' = [req EXCEPT ![r].pc = "probe"]
  /\ UNCHANGED <<now, ticks, db, mainPc, sim, events, eventsMu, cache,
                 stable, lastRun, entryId, lastWriter>>

\* variant: the hit path returns the stored list uncut
HitResultUncut(e, limit) == e.Result

\* the hit path's return value: e.Result[:limit] when longer than limit
HitResult(e, limit) == TopLimit(e.Result, limit)

\* e, ok := cache[key]; a fresh entry is returned cut to limit, otherwise the
\* call goes on to recompute; cacheMu.RUnlock() on both paths
Probe(r) ==
  /\ req[r].pc = "probe"
  /\ LET ok == req[r].key \in DOMAIN cache
         e == IF ok THEN cache[req[r].key] ELSE NoEntry
     IN IF ok /\ Fresh(e, now)
        THEN req' = [req EXCEPT ![r].pc = "done", ![r].found = ok, ![r].e = e,
                                ![r].result = HitResult(e, req[r].limit),
                                ![r].path = "hit",
                                ![r].served = entryId[req[r].key],
                                ![r].hitOver = events]
        ELSE req' = [req EXCEPT ![r].pc = "evRLock", ![r].found = ok, ![r].e = e]
  /\ cacheMu' = RUnlock(cacheMu, r)
  /\ UNCHANGED <<now, ticks, db, mainPc, sim, events, eventsMu, cache,
                 stable, lastRun, entryId, lastWriter>>

\* eventsMu.RLock()
EventsRLock(r) ==
  /\ req[r].pc = "evRLock"
  /\ CanRLock(eventsMu)
  /\ eventsMu' = [eventsMu EXCEPT !.readers = @ \cup {r}]
  /\ req' = [req EXCEPT ![r].pc = "snapshot"]
  /\ UNCHANGED <<now, ticks, db, mainPc, sim, events, cache, cacheMu,
                 stable, lastRun, entryId, lastWriter>>

\* evs := copy of events; eventsMu.RUnlock()
Snapshot(r) ==
  /\ req[r].pc = "snapshot"
  /\ req' = [req EXCEPT ![r].pc = "compute", ![r].evs = events,
                        ![r].snapStable = stable]
  /\ eventsMu' = RUnlock(eventsMu, r)
  /\ UNCHANGED <<now, ticks, db, mainPc, sim, events, cache, cacheMu,
                 stable, lastRun, entryId, lastWriter>>

\* what LoadAllArticlesFromDB can return: an error, or the documents read
\* before the cursor ended or its 10 s context expired
DBReads == {[err |-> TRUE, val |-> <<>>]} \cup {[err |-> FALSE, val |-> p] : p \in Prefixes(db)}

\* what LoadNewsDataFromFile can return
FileReads == {[err |-> TRUE, val |-> <<>>], [err |-> FALSE, val |-> Bundled]}

\* scoring, resolving, building and sorting the items
Compute(r) ==
  /\ req[r].pc = "compute"
  /\ LET sm == scoreMap(req[r].evs, req[r].lat, req[r].lon, req[r].radius, now)
         ids == DOMAIN sm
     IN IF Cardinality(ids) > 0
        THEN \E primary \in DBReads, file \in FileReads :
               /\ primary.err \/ ~file.err
               /\ \E items \in SortOutcomes(
                       BuildItems(loadArticlesByIDs(ids, primary, file), sm)) :
                    req' = [req EXCEPT ![r].pc = "cacheLock", ![r].ids = ids,
                                       ![r].items = items,
                                       ![r].primaryErr = IF primary.err THEN "err" ELSE "ok",
                                       ![r].fileErr = IF ~primary.err THEN None
                                                      ELSE IF file.err THEN "err" ELSE "ok"]
        ELSE req' = [req EXCEPT ![r].pc = "cacheLock", ![r].ids = ids,
                                ![r].items = <<>>]
  /\ UNCHANGED <<now, ticks, db, mainPc, sim, events, eventsMu, cache, cacheMu,
                 stable, lastRun, entryId, lastWriter>>

\* cacheMu.Lock()
CacheLock(r) ==
  /\ req[r].pc = "cacheLock"
  /\ CanLock(cacheMu)
  /\ cacheMu' = [cacheMu EXCEPT !.writer = r]
  /\ req' = [req EXCEPT ![r].pc = "storeAt"]
  /\ UNCHANGED <<now, ticks, db, mainPc, sim, events, eventsMu, cache,
                 stable, lastRun, entryId, lastWriter>>

\* variant: the write starts from an empty map
PutAlone(c, k, e) == (k :> e)

\* cache[key] = e on the map c
Put(c, k, e) == (k :> e) @@ c

\* cache[key] = cachedTrending{At: time.Now(), Result: items}, first field
StoreAt(r) ==
  /\ req[r].pc = "storeAt"
  /\ LET k == req[r].key
         old == IF k \in DOMAIN cache THEN cache[k] ELSE NoEntry
     IN /\ cache' = Put(cache, k, [At |-> now, Result |-> old.Result])
        /\ entryId' = (k :> (IF k \in DOMAIN entryId THEN entryId[k] + 1 ELSE 1)) @@ entryId
        /\ lastWriter' = (k :> r) @@ lastWriter
  /\ req' = [req EXCEPT ![r].pc = "storeResult", ![r].wroteAt = now]
  /\ UNCHANGED <<now, ticks, db, mainPc, sim, events, eventsMu, cacheMu,
                 stable, lastRun>>

\* variant: the cut list is what the entry holds
CachedResultCut(items, limit) == TopLimit(items, limit)

\* the list of the entry written on a miss: Result: items
CachedResult(items, limit) == items

\* ... second field; cacheMu.Unlock(); return the items cut to limit
StoreResult(r) ==
  /\ req[r].pc = "storeResult"
  /\ cache' = [cache EXCEPT ![req[r].key].Result = CachedResult(req[r].items, req[r].limit)]
  /\ cacheMu' = Unlock(cacheMu)
  /\ req' = [req EXCEPT ![r].pc = "done",
                        ![r].result = TopLimit(req[r].items, req[r].limit),
                        ![r].path = "miss",
                        ![r].served = entryId[req[r].key]]
  /\ UNCHANGED <<now, ticks, db, mainPc, sim, events, eventsMu,
                 stable, lastRun, entryId, lastWriter>>

RequestStep(r) ==
  \/ CacheRLock(r)
  \/ Probe(r)
  \/ EventsRLock(r)
  \/ Snapshot(r)
  \/ Compute(r)
  \/ CacheLock(r)
  \/ StoreAt(r)
  \/ StoreResult(r)

\* the process from its start: start-up, the simulation goroutines and calls;
\* start-up plays within one tick of the clock (the clock advances in SpecCache)
Next ==
  \/ ConnectDB
  \/ SaveCount
  \/ SaveSeed
  \/ \E s \in Sims : ReadArticles(s)
  \/ \E s \in Sims : SimLock(s)
  \/ \E s \in Sims : SimReset(s)
  \/ \E s \in Sims : SimAppend(s)
  \/ \E s \in Sims : SimReturn(s)
  \/ \E r \in Requests : BeginOne(r)
  \/ \E r \in Requests : RequestStep(r)

Spec == Init /\ [][Next]_vars

\* the serving process after start-up: the simulation runs are over and have
\* left one of the populations of Stores
InitCache ==
  /\ now = 0
  /\ ticks = 0
  /\ \E st \in Stores : db = st.db /\ events = st.events /\ stable = st.events
  /\ mainPc = "done"
  /\ sim = [s \in Sims |-> SimInit]
  /\ eventsMu = Unlocked
  /\ cache = [k \in {} |-> NoEntry]
  /\ cacheMu = Unlocked
  /\ req = [r \in Requests |-> ReqInit]
  /\ lastRun = NoRun
  /\ entryId = [k \in {} |-> 0]
  /\ lastWriter = [k \in {} |-> None]

NextCache ==
  \/ Tick
  \/ \E r \in Requests : BeginAny(r)
  \/ \E r \in Requests : RequestStep(r)

SpecCache == InitCache /\ [][NextCache]_vars

\* the process from its start with calls that arrive at any time, under fair
\* scheduling: the main goroutine, every simulation goroutine and every call
\* that has arrived take their next step when it stays possible; every
\* external read returns (ReadArticles, Compute and SaveSeed are always
\* enabled at their position); calls need not arrive
BeginSys(r) == Begin(r, SysQueries, SysLimits)

StartUp == ConnectDB \/ SaveCount \/ SaveSeed

SimStep(s) ==
  \/ ReadArticles(s)
  \/ SimLock(s)
  \/ SimReset(s)
  \/ SimAppend(s)
  \/ SimReturn(s)

NextLive ==
  \/ StartUp
  \/ \E s \in Sims : SimStep(s)
  \/ \E r \in Requests : BeginSys(r)
  \/ \E r \in Requests : RequestStep(r)

Fairness ==
  /\ WF_vars(StartUp)
  /\ \A s \in Sims : WF_vars(SimStep(s))
  /\ \A r \in Requests : WF_vars(RequestStep(r))

SpecLive == Init /\ [][NextLive]_vars /\ Fairness

\* scoring runs: the bundled articles are stored, a finished run has left up
\* to MaxScored events, and calls arrive one after the other
Seqs(S, n) == UNION {[1..k -> S] : k \in 0..n}

InitScore ==
  /\ now = 0
  /\ ticks = 0
  /\ db = Bundled
  /\ events \in Seqs(ScoreEvents, MaxScored)
  /\ stable = events
  /\ mainPc = "done"
  /\ sim = [s \in Sims |-> SimInit]
  /\ eventsMu = Unlocked
  /\ cache = [k \in {} |-> NoEntry]
  /\ cacheMu = Unlocked
  /\ req = [r \in Requests |-> ReqInit]
  /\ lastRun = NoRun
  /\ entryId = [k \in {} |-> 0]
  /\ lastWriter = [k \in {} |-> None]

BeginScore(r) ==
  /\ \A o \in Requests \ {r} : req[o].pc \in {"idle", "done"}
  /\ Begin(r, ScoreQueries, ScoreLimits)

NextScore ==
  \/ \E r \in Requests : BeginScore(r)
  \/ \E r \in Requests : RequestStep(r)

SpecScore == InitScore /\ [][NextScore]_vars

\* ------------------------------------------------------------ properties
Done(r) == req[r].pc = "done"

\* the full ranked list a finished call was answered from
FullList(r) == IF req[r].path = "hit" THEN req[r].e.Result ELSE req[r].items

\* C1. Cache staleness: a call leaves the probe with a hit only when the entry
\* of its key is less than 60 seconds old; from an entry aged 60 seconds or
\* more, and from an absent one, it goes on to the recompute path.
C1_CacheStaleness ==
  [][\A r \in Requests :
       (req[r].pc = "probe" /\ req'[r].pc # "probe") =>
          LET k == req[r].key
              young == k \in DOMAIN cache /\ now - cache[k].At < 60
          IN /\ young => req'[r].pc = "done" /\ req'[r].path = "hit"
             /\ ~young => req'[r].pc = "evRLock" /\ req'[r].path = None
                          /\ req'[r].result = <<>>]_vars

\* a call found an entry exactly 60 seconds old and is on the recompute path
C1_Witness ==
  \E r \in Requests :
    req[r].pc = "evRLock" /\ req[r].found /\ now - req[r].e.At = 60

\* the grid cell and the rounded radius of a call, as numbers
Cell(r) == <<Round(req[r].lat, 10).mag * (IF req[r].lat < 0 THEN -1 ELSE 1),
             Round(req[r].lon, 10).mag * (IF req[r].lon < 0 THEN -1 ELSE 1),
             Round(req[r].radius, 100000).mag>>

\* C2 as claimed. Cache idempotence: two finished calls with the same limit,
\* the same grid cell and the same rounded radius, issued less than 60 seconds
\* apart (no simulation run in between), returned identical ranked lists.
C2_IdempotenceClaimed ==
  \A a, b \in Requests :
    (/\ Done(a) /\ Done(b)
     /\ req[a].limit = req[b].limit
     /\ Cell(a) = Cell(b)
     /\ Abs(req[a].t0 - req[b].t0) < 60)
    => req[a].result = req[b].result

\* C2 as amended. Two finished calls with the same limit that were answered
\* from the same cache entry (the miss that wrote it, the hits that read it)
\* returned identical ranked lists.
C2_SameEntryIdempotence ==
  \A a, b \in Requests :
    (/\ Done(a) /\ Done(b)
     /\ req[a].limit = req[b].limit
     /\ req[a].key = req[b].key
     /\ req[a].served = req[b].served)
    => req[a].result = req[b].result

\* a miss wrote a list of two items and a hit with the same limit, from another
\* latitude of the same cell, was answered from that entry
C2_Witness ==
  \E a, b \in Requests :
    /\ Done(a) /\ Done(b)
    /\ req[a].path = "miss" /\ req[b].path = "hit"
    /\ req[a].limit = req[b].limit
    /\ req[a].lat # req[b].lat
    /\ req[a].key = req[b].key /\ req[a].served = req[b].served
    /\ Len(req[a].items) = 2 /\ req[a].limit = 1

\* C3. Truncation: a finished call, hit or miss, returned exactly the first
\* min(limit, n) elements of the full ranked list of n items, and the full
\* list is in non-increasing score order.
C3_TopLimitPrefix ==
  \A r \in Requests :
    Done(r) =>
      LET full == FullList(r)
          m == IF req[r].limit < Len(full) THEN req[r].limit ELSE Len(full)
      IN /\ Len(req[r].result) = m
         /\ \A i \in 1..m : req[r].result[i] = full[i]
         /\ \A i, j \in 1..Len(full) : i < j => full[i].Score >= full[j].Score

\* a miss and a hit with limit 1 over two items of different score
C3_Witness ==
  \E a, b \in Requests :
    /\ Done(a) /\ req[a].path = "miss" /\ Done(b) /\ req[b].path = "hit"
    /\ req[a].limit = 1 /\ Len(req[a].items) = 2 /\ Len(req[a].result) = 1
    /\ req[a].items[1].Score > req[a].items[2].Score
    /\ req[b].limit = 1 /\ Len(req[b].e.Result) = 2 /\ Len(req[b].result) = 1

\* the call holds a snapshot of the event store
HasSnapshot(r) ==
  req[r].pc \in {"compute", "cacheLock", "storeAt", "storeResult"}
    \/ (Done(r) /\ req[r].path = "miss")

\* C4. Atomic replacement: every snapshot a call took equals the complete
\* collection the last finished run had left when the snapshot was taken (the
\* collection before a run still going on, the one after a finished run),
\* and whenever no run holds the write lock the store is such a collection.
C4_AtomicReplacement ==
  /\ \A r \in Requests : HasSnapshot(r) => req[r].evs = req[r].snapStable
  /\ eventsMu.writer = None => events = stable

\* a call holds the complete earlier population while a later run has emptied
\* the store and is generating
C4_Witness ==
  \E r \in Requests, s \in Sims :
    /\ req[r].pc = "compute" /\ req[r].evs # <<>>
    /\ sim[s].pc = "gen" /\ events = <<>>

\* C5 as claimed. While a run is generating its collection, a call waiting to
\* take its snapshot can take the read lock.
C5_SnapshotDoesNotWait ==
  \A s \in Sims, r \in Requests :
    (sim[s].pc = "gen" /\ req[r].pc = "evRLock") => CanRLock(eventsMu)

\* C6 as claimed. Once start-up and both runs are over, both having read the
\* content in full, the store holds the population of the later call's run.
C6_LaterRunWins ==
  (/\ mainPc = "done"
   /\ \A s \in Sims : sim[s].pc = "done" /\ sim[s].read = "ok")
  => (lastRun.by = "g2" /\ events # <<>>)

\* C7 as claimed. A call that arrives after a run over no articles (and no
\* later run) returns an empty list and no error.
C7_EmptyAfterZeroRunClaimed ==
  \A r \in Requests :
    (Done(r) /\ req[r].afterZeroRun) => (req[r].result = <<>> /\ req[r].err = None)

\* C7 as amended. A call that arrives after a run over no articles and finds
\* no fresh cache entry for its key returns an empty list and no error; no
\* call returns an error.
C7_MissAfterZeroRunEmpty ==
  \A r \in Requests :
    /\ (Done(r) /\ req[r].afterZeroRun /\ req[r].path = "miss")
         => (req[r].result = <<>> /\ req[r].evs = <<>>)
    /\ req[r].err = None

\* a recomputing call after a run that was given no articles although the
\* store holds content
C7_Witness ==
  \E r \in Requests :
    Done(r) /\ req[r].afterZeroRun /\ req[r].path = "miss" /\ Len(db) > 0

\* C8 as claimed. A run whose content read failed or timed out leaves the
\* event store empty when it ends.
C8_FailedReadEmptiesStore ==
  [][\A s \in Sims :
       (sim[s].pc # "done" /\ sim'[s].pc = "done" /\ sim'[s].read \in {"err", "timeout"})
         => events' = <<>>]_vars

\* the call has resolved the scored ids
Resolved(r) ==
  req[r].pc \in {"cacheLock", "storeAt", "storeResult"} \/ (Done(r) /\ req[r].path = "miss")

\* C9. Resolver fallback: when the primary read failed the items are exactly
\* the bundled articles whose id was scored (other ids are dropped), none when
\* the bundled file failed too; no call returns an error.
C9_ResolverFallback ==
  \A r \in Requests :
    /\ (Resolved(r) /\ req[r].primaryErr = "err") =>
         LET known == {j \in 1..Len(Bundled) : Bundled[j].ID \in req[r].ids}
         IN IF req[r].fileErr = "err"
            THEN req[r].items = <<>>
            ELSE /\ Len(req[r].items) = Cardinality(known)
                 /\ {req[r].items[i].Article : i \in 1..Len(req[r].items)}
                      = {Bundled[j] : j \in known}
    /\ req[r].err = None

\* the primary read failed, a3 is unknown to the bundled file and was dropped,
\* a1 was resolved from it
C9_Witness ==
  \E r \in Requests :
    /\ Done(r) /\ req[r].primaryErr = "err" /\ req[r].fileErr = "ok"
    /\ req[r].ids = {"a1", "a3"}
    /\ Len(req[r].items) = 1 /\ req[r].items[1].Article.ID = "a1"

\* the entry a call wrote: computed_at and ranked list together
Written(w) == [At |-> req[w].wroteAt, Result |-> req[w].items]

\* C10. Concurrent misses: whenever no write is in progress every cache entry
\* is the complete entry of the call that wrote its key last, and every entry
\* a call read at its probe is the complete entry of one finished write.
C10_LastWriteWins ==
  /\ cacheMu.writer = None =>
       \A k \in DOMAIN cache :
         /\ req[lastWriter[k]].key = k
         /\ cache[k] = Written(lastWriter[k])
  /\ \A r \in Requests :
       req[r].found =>
         \E w \in Requests \ {r} :
           /\ req[w].key = req[r].key /\ Done(w) /\ req[w].path = "miss"
           /\ req[r].e = Written(w)

\* two calls missed on the same key, both wrote, with different lists
C10_Witness ==
  \E a, b \in Requests :
    /\ a # b /\ Done(a) /\ Done(b)
    /\ req[a].path = "miss" /\ req[b].path = "miss"
    /\ req[a].key = req[b].key
    /\ req[a].items # req[b].items
    /\ req[b].found = FALSE /\ req[a].found = FALSE
    /\ cache[req[a].key] = Written(lastWriter[req[a].key])
\* the distance of an event from the query point of a call
Dist(r, e) == haversine(req[r].lat, req[r].lon, e.Lat, e.Lon)

RECURSIVE SumSeq(_)
SumSeq(s) == IF s = <<>> THEN 0 ELSE Head(s) + SumSeq(Tail(s))

\* what the events of content item id at distance at most the radius add up
\* to, scored at time t
ScoreWithin(r, id, t) ==
  LET near == SelectSeq(req[r].evs,
                LAMBDA e : e.ArticleID = id /\ Dist(r, e) <= req[r].radius)
  IN SumSeq([i \in 1..Len(near) |-> Contribution(near[i], req[r].lat, req[r].lon, t)])

\* C11. Strict radius exclusion: after a miss the scored content items are
\* exactly those with an event at distance at most the radius (an event
\* exactly at the radius counts, an item all of whose events lie beyond it is
\* neither scored nor ranked), and the score of every ranked item is what its
\* events at distance at most the radius add up to: an event beyond the radius
\* adds nothing.
C11_RadiusExclusion ==
  \A r \in Requests :
    (Done(r) /\ req[r].path = "miss") =>
      LET evs == req[r].evs
          reached == {evs[i].ArticleID :
                        i \in {j \in 1..Len(evs) : Dist(r, evs[j]) <= req[r].radius}}
      IN /\ req[r].ids = reached
         /\ \A k \in 1..Len(req[r].items) :
              /\ req[r].items[k].Article.ID \in reached
              /\ \E t \in req[r].t0..now :
                   req[r].items[k].Score = ScoreWithin(r, req[r].items[k].Article.ID, t)
         /\ \A i \in 1..Len(evs) :
              Dist(r, evs[i]) = req[r].radius => evs[i].ArticleID \in req[r].ids

\* a miss over one event exactly at the radius and one beyond it: the first
\* one's item is ranked with a positive score, the other's is absent
C11_Witness ==
  \E r \in Requests :
    /\ Done(r) /\ req[r].path = "miss" /\ Len(req[r].evs) = 2
    /\ Dist(r, req[r].evs[1]) = req[r].radius
    /\ Dist(r, req[r].evs[2]) > req[r].radius
    /\ req[r].ids = {req[r].evs[1].ArticleID}
    /\ Len(req[r].items) = 1
    /\ req[r].items[1].Article.ID = req[r].evs[1].ArticleID
    /\ req[r].items[1].Score > 0
\* the smaller of two numbers
Min(a, b) == IF a < b THEN a ELSE b

\* C12. Truncation is not baked into the cache: the entry a miss wrote holds
\* the full ranked list whatever the limit of that call, and a hit answered
\* from that entry with limit L' returned the first min(L', n) of its n items.
C12_FullListCached ==
  /\ \A w \in Requests :
       (/\ Done(w) /\ req[w].path = "miss"
        /\ lastWriter[req[w].key] = w /\ cacheMu.writer = None)
       => cache[req[w].key].Result = req[w].items
  /\ \A w, h \in Requests :
       (/\ Done(w) /\ req[w].path = "miss"
        /\ Done(h) /\ req[h].path = "hit"
        /\ req[h].key = req[w].key /\ req[h].served = req[w].served)
       => LET n == Len(req[w].items)
          IN /\ req[h].e.Result = req[w].items
             /\ req[h].result = SubSeq(req[w].items, 1, Min(req[h].limit, n))

\* a miss with limit 1 ranked two items and returned the first; a hit with
\* limit 2 on its entry returned both
C12_Witness ==
  \E w, h \in Requests :
    /\ Done(w) /\ req[w].path = "miss" /\ req[w].limit = 1
    /\ Len(req[w].items) = 2 /\ Len(req[w].result) = 1
    /\ Done(h) /\ req[h].path = "hit" /\ req[h].limit = 2
    /\ req[h].key = req[w].key /\ req[h].served = req[w].served
    /\ req[h].result = req[w].items
\* the call is inside its write of the cache
Storing(r) == req[r].pc \in {"storeAt", "storeResult"}

\* C13. Lazy eviction: no step removes a key from the cache; an entry, expired
\* or not, changes only in the write of a recomputing call of its key, which
\* leaves the complete new entry (its time and its list) when it ends; and a
\* probe, whether it finds a fresh entry, an expired one or none, leaves the
\* map as it is.
C13_LazyEviction ==
  [][/\ DOMAIN cache \subseteq DOMAIN cache'
     /\ \A k \in DOMAIN cache :
          cache'[k] # cache[k] =>
            \E r \in Requests :
              /\ Storing(r) /\ req[r].key = k /\ req'[r] # req[r]
              /\ Done(r)' => cache'[k] = [At |-> req[r].wroteAt, Result |-> req[r].items]
     /\ \A r \in Requests :
          (req[r].pc = "probe" /\ req'[r].pc # "probe") => cache' = cache]_vars

\* a call found an expired entry, has recomputed and waits for the write lock;
\* the expired entry is still in the map
C13_Witness ==
  \E r \in Requests :
    /\ req[r].pc = "cacheLock" /\ req[r].found
    /\ ~(now - req[r].e.At < 60)
    /\ req[r].key \in DOMAIN cache /\ cache[req[r].key] = req[r].e
\* the locks a call or a simulation goroutine holds
Holds(p) ==
  (IF p \in eventsMu.readers \/ eventsMu.writer = p THEN {"eventsMu"} ELSE {})
    \cup (IF p \in cacheMu.readers \/ cacheMu.writer = p THEN {"cacheMu"} ELSE {})

\* the call or goroutine is about to acquire a lock
Acquiring(p) ==
  IF p \in Requests THEN req[p].pc \in {"cacheRLock", "evRLock", "cacheLock"}
  ELSE sim[p].pc = "lock"

\* the call or goroutine has returned, or has not started
Outside(p) ==
  IF p \in Requests THEN req[p].pc \in {"idle", "done"}
  ELSE sim[p].pc \in {"off", "done"}

\* no operation holds both locks, asks for a lock while holding one, or holds
\* one after it has returned
LockDiscipline ==
  \A p \in Requests \cup Sims :
    /\ Cardinality(Holds(p)) <= 1
    /\ Acquiring(p) => Holds(p) = {}
    /\ Outside(p) => Holds(p) = {}

\* C14. No operation blocks indefinitely: under fair scheduling, with every
\* external read returning, every behaviour reaches a point from which no
\* call and no simulation run is in flight (a call arrives once and a
\* goroutine is started once, so every call that arrived has returned and
\* every run that was started has ended); at no time does an operation hold
\* both locks, wait for a lock while holding one, or keep a lock after it
\* has returned.
C14_NoIndefiniteBlocking ==
  /\ []LockDiscipline
  /\ <>[](\A p \in Requests \cup Sims : Outside(p))

\* a call waits for the read lock of the event store while one run generates
\* under the write lock and the other run waits for it, and the other call
\* waits for the write lock of the cache
C14_Witness ==
  \E r, o \in Requests, s, t \in Sims :
    /\ req[r].pc = "evRLock" /\ req[o].pc = "cacheLock"
    /\ sim[s].pc = "gen" /\ eventsMu.writer = s
    /\ sim[t].pc = "lock"
\* the events of content item id in the snapshot of a call
EventsOf(r, id) == SelectSeq(req[r].evs, LAMBDA e : e.ArticleID = id)

\* C15. Weight ordering: after a miss, of two ranked items that each have one
\* event, the two events at the same distance within the radius and of the
\* same age, the item whose event is a share scores strictly more than one
\* whose event is a click, and that one strictly more than one whose event is
\* a view; the scores are in the proportion 3 : 2 : 1 of the types.
C15_WeightOrdering ==
  \A r \in Requests :
    (Done(r) /\ req[r].path = "miss") =>
      \A i, j \in 1..Len(req[r].items) :
        LET a == EventsOf(r, req[r].items[i].Article.ID)
            b == EventsOf(r, req[r].items[j].Article.ID)
            w == [ty \in {"view", "click", "share"} |->
                    IF ty = "share" THEN 3 ELSE IF ty = "click" THEN 2 ELSE 1]
        IN (/\ Len(a) = 1 /\ Len(b) = 1
            /\ Dist(r, a[1]) = Dist(r, b[1]) /\ Dist(r, a[1]) <= req[r].radius
            /\ a[1].Ts = b[1].Ts)
           => /\ w[a[1].Type] > w[b[1].Type]
                   => req[r].items[i].Score > req[r].items[j].Score
              /\ req[r].items[i].Score * w[b[1].Type]
                   = req[r].items[j].Score * w[a[1].Type]

\* a miss over a click and a share of two items, both half a day old and at
\* the same distance inside the radius: the shared item is ranked first
C15_Witness ==
  \E r \in Requests :
    /\ Done(r) /\ req[r].path = "miss" /\ Len(req[r].evs) = 2
    /\ req[r].evs[1].Type = "click" /\ req[r].evs[2].Type = "share"
    /\ req[r].evs[1].Ts = -HalfLife /\ req[r].evs[2].Ts = -HalfLife
    /\ Dist(r, req[r].evs[1]) = Dist(r, req[r].evs[2])
    /\ Dist(r, req[r].evs[1]) < req[r].radius
    /\ Len(req[r].items) = 2
    /\ req[r].items[1].Article.ID = req[r].evs[2].ArticleID
    /\ req[r].items[1].Score > req[r].items[2].Score
    /\ req[r].items[2].Score > 0
\* C16. Frames of the two operations: a step of start-up or of a simulation
\* run (one that changes a goroutine's position or the event store) leaves
\* the cache as it is, a step of a call leaves the event store as it is, and
\* a call that leaves the probe with a hit returns the first min(limit, n) of
\* the n items the call that wrote the entry had ranked, whatever the event
\* store holds by then.
C16_Frames ==
  [][/\ (sim' # sim \/ events' # events \/ eventsMu.writer # eventsMu'.writer)
          => cache' = cache
     /\ req' # req => events' = events
     /\ \A h \in Requests :
          (req[h].pc = "probe" /\ Done(h)') =>
            \E w \in Requests \ {h} :
              /\ Done(w) /\ req[w].path = "miss" /\ req[w].key = req[h].key
              /\ req'[h].e.Result = req[w].items
              /\ req'[h].result
                   = SubSeq(req[w].items, 1, Min(req[h].limit, Len(req[w].items)))]_vars

\* a call recomputed over the empty store and cached the empty list; a run
\* then populated the store and ended; the next call was a hit over the
\* populated store and returned the empty list
C16_Witness ==
  \E w, h \in Requests :
    /\ Done(w) /\ req[w].path = "miss" /\ req[w].evs = <<>> /\ req[w].items = <<>>
    /\ Done(h) /\ req[h].path = "hit" /\ req[h].key = req[w].key
    /\ req[h].hitOver # <<>> /\ req[h].hitOver = stable
    /\ req[h].result = <<>>
    /\ Quiescent /\ lastRun.articles > 0
====
